---- MODULE Spec2Model ----
(***************************************************************************)
(* Model of next-tutor's connection cache (src/lib/mongodb.ts) and of the  *)
(* Event model's slug engine and save hook (src/database/event.model.ts).  *)
(*                                                                         *)
(* Three specifications share the variables:                               *)
(*   Spec      the connection cache under concurrent connectDB and         *)
(*             disconnectDB calls;                                         *)
(*   EventSpec the Event collection under concurrent saves;                *)
(*   SlugSpec  generateSlug applied to titles and suffixes.                *)
(***************************************************************************)
EXTENDS Integers, Sequences, FiniteSets, TLC

VARIABLES
  uri,        \* process.env.MONGODB_URI: "absent", "malformed" or "valid"
  conn,       \* cached.conn: 0 is null, k is the handle attempt k connected
  promise,    \* cached.promise: 0 is null, k is the promise of attempt k
  attempts,   \* mongoose.connect calls so far, each "inflight", "ok" or "failed"
  calls,      \* connectDB calls so far, with what each returned
  rel,        \* disconnectDB calls so far: "noop", "closing" or "done", and
              \* the handle each one found cached
  dirty,      \* something other than a connectDB call happened since the last call
  events,     \* the Event collection: a sequence of documents, id = position
  writers,    \* the saves in progress, one per request slot
  saves,      \* the number of saves begun so far
  title,      \* SlugSpec: the title given to generateSlug
  suffix,     \* SlugSpec: the suffix given to generateSlug (<<>> is none)
  slug,       \* SlugSpec: what generateSlug returned
  step,       \* SlugSpec: 0 inputs drawn, 1 generateSlug applied, 2 applied again
  bookings,   \* the Booking collection: a sequence of documents
  bookers,    \* the Booking saves, one per request
  dateIn,     \* DateSpec: the text given to normalizeDate, as Date parses it
  tz,         \* DateSpec: the process's offset from UTC, in minutes
  dateOut,    \* DateSpec: what normalizeDate returned
  hookIn,     \* HookSpec: a title and the slugs the hook's query returned
  hookOut     \* HookSpec: the slug the hook assigned

connVars == <<uri, conn, promise, attempts, calls, rel, dirty>>
eventVars == <<events, writers, saves>>
slugVars == <<title, suffix, slug, step>>
bookingVars == <<bookings, bookers>>
dateVars == <<dateIn, tz, dateOut>>
hookVars == <<hookIn, hookOut>>
restVars == <<bookingVars, dateVars, hookVars>>
vars == <<uri, conn, promise, attempts, calls, rel, dirty, events, writers,
          saves, title, suffix, slug, step, bookings, bookers, dateIn, tz,
          dateOut, hookIn, hookOut>>

(***************************************************************************)
(* Bounds of the model.                                                    *)
(***************************************************************************)
MaxCalls == 3
MaxAttempts == 3
MaxReleases == 2
MaxSaves == 3
MaxBookers == 2
MaxTaken == 3

(***************************************************************************)
(* The connection cache.                                                   *)
(***************************************************************************)
UriValues == {"absent", "malformed", "valid"}

\* The burst a new connectDB call belongs to: the burst of the previous call
\* when nothing happened in between, a new one otherwise.
NextBurst ==
  IF calls = <<>> THEN 1
  ELSE IF dirty THEN calls[Len(calls)].burst + 1
  ELSE calls[Len(calls)].burst

Call(ret, v, started) ==
  [ret |-> ret, v |-> v, started |-> started, burst |-> NextBurst,
   sawEmpty |-> (conn = 0 /\ promise = 0), uriAt |-> uri,
   got |-> IF ret = "promise" THEN "pending" ELSE ret]

\* connectDB has no await: each call runs to its return in one step, along one
\* of the five paths below.
connectDBMissingUri ==
  /\ uri = "absent"
  /\ calls' = Append(calls, Call("missing", 0, FALSE))
  /\ UNCHANGED <<conn, promise, attempts>>

connectDBCachedConn ==
  /\ uri # "absent"
  /\ conn # 0
  /\ calls' = Append(calls, Call("conn", conn, FALSE))
  /\ UNCHANGED <<conn, promise, attempts>>

\* connectDB without its check of cached.promise: a call made while an attempt
\* is in flight starts another one.
connectDBInFlightNoCheck ==
  /\ uri = "valid"
  /\ conn = 0
  /\ promise # 0
  /\ Len(attempts) < MaxAttempts
  /\ attempts' = Append(attempts, "inflight")
  /\ promise' = Len(attempts) + 1
  /\ calls' = Append(calls, Call("promise", Len(attempts) + 1, TRUE))
  /\ UNCHANGED conn

connectDBInFlight ==
  /\ uri # "absent"
  /\ conn = 0
  /\ promise # 0
  /\ calls' = Append(calls, Call("promise", promise, FALSE))
  /\ UNCHANGED <<conn, promise, attempts>>

\* connectDB without its check of the connection string's prefix.
connectDBBadFormatStarts ==
  /\ uri = "malformed"
  /\ conn = 0
  /\ promise = 0
  /\ Len(attempts) < MaxAttempts
  /\ attempts' = Append(attempts, "inflight")
  /\ promise' = Len(attempts) + 1
  /\ calls' = Append(calls, Call("promise", Len(attempts) + 1, TRUE))
  /\ UNCHANGED conn

connectDBBadFormat ==
  /\ uri = "malformed"
  /\ conn = 0
  /\ promise = 0
  /\ calls' = Append(calls, Call("format", 0, FALSE))
  /\ UNCHANGED <<conn, promise, attempts>>

connectDBStart ==
  /\ uri = "valid"
  /\ conn = 0
  /\ promise = 0
  /\ Len(attempts) < MaxAttempts
  /\ attempts' = Append(attempts, "inflight")
  /\ promise' = Len(attempts) + 1
  /\ calls' = Append(calls, Call("promise", Len(attempts) + 1, TRUE))
  /\ UNCHANGED conn

connectDB ==
  /\ Len(calls) < MaxCalls
  /\ \/ connectDBMissingUri
     \/ connectDBCachedConn
     \/ connectDBInFlight
     \/ connectDBBadFormat
     \/ connectDBStart
  /\ dirty' = FALSE
  /\ UNCHANGED <<uri, rel>>

\* A .then handler that also clears cached.promise.
ConnectResolvedClearsPromise(a) ==
  /\ attempts[a] = "inflight"
  /\ attempts' = [attempts EXCEPT ![a] = "ok"]
  /\ conn' = a
  /\ promise' = 0
  /\ dirty' = TRUE
  /\ UNCHANGED <<uri, calls, rel>>

\* The .then handler of attempt a.
ConnectResolved(a) ==
  /\ attempts[a] = "inflight"
  /\ attempts' = [attempts EXCEPT ![a] = "ok"]
  /\ conn' = a
  /\ dirty' = TRUE
  /\ UNCHANGED <<uri, promise, calls, rel>>

\* The .catch handler of attempt a.
ConnectRejected(a) ==
  /\ attempts[a] = "inflight"
  /\ attempts' = [attempts EXCEPT ![a] = "failed"]
  /\ promise' = 0
  /\ dirty' = TRUE
  /\ UNCHANGED <<uri, conn, calls, rel>>

\* The caller of call i, awaiting the promise it was given, resumes.
Settled(i) ==
  IF attempts[calls[i].v] = "ok" THEN "conn" ELSE "error"

Resume(i) ==
  /\ calls[i].got = "pending"
  /\ attempts[calls[i].v] # "inflight"
  /\ calls' = [calls EXCEPT ![i].got = Settled(i)]
  /\ UNCHANGED <<uri, conn, promise, attempts, rel, dirty>>

\* disconnectDB up to its await (or to its return when nothing is cached).
disconnectDB ==
  /\ Len(rel) < MaxReleases
  /\ rel' = Append(rel, [st |-> IF conn # 0 THEN "closing" ELSE "noop",
                         h |-> conn])
  /\ dirty' = TRUE
  /\ UNCHANGED <<uri, conn, promise, attempts, calls>>

\* disconnectDB after its await of mongoose.disconnect().
Disconnected(r) ==
  /\ rel[r].st = "closing"
  /\ rel' = [rel EXCEPT ![r].st = "done"]
  /\ conn' = 0
  /\ promise' = 0
  /\ dirty' = TRUE
  /\ UNCHANGED <<uri, attempts, calls>>

\* The environment sets, changes or removes MONGODB_URI.
SetUri(u) ==
  /\ u # uri
  /\ uri' = u
  /\ dirty' = TRUE
  /\ UNCHANGED <<conn, promise, attempts, calls, rel>>

InFlight == {a \in 1..Len(attempts) : attempts[a] = "inflight"}

ConnIdle ==
  /\ uri = "valid"
  /\ conn = 0
  /\ promise = 0
  /\ attempts = <<>>
  /\ calls = <<>>
  /\ rel = <<>>
  /\ dirty = FALSE

SlugIdle ==
  /\ title = <<>>
  /\ suffix = <<>>
  /\ slug = <<>>
  /\ step = 0

DateIdle ==
  /\ dateIn = [form |-> "none", y |-> 0, m |-> 0, d |-> 0]
  /\ tz = 0
  /\ dateOut = <<>>

HookIdle ==
  /\ hookIn = [title |-> <<>>, base |-> FALSE, upto |-> 1, holes |-> {}]
  /\ hookOut = <<>>

ConnInit ==
  /\ uri \in UriValues
  /\ conn = 0
  /\ promise = 0
  /\ attempts = <<>>
  /\ calls = <<>>
  /\ rel = <<>>
  /\ dirty = FALSE

(***************************************************************************)
(* Strings are sequences of one-character strings.                         *)
(***************************************************************************)
UpperLetters ==
  <<"A", "B", "C", "D", "E", "F", "G", "H", "I", "J", "K", "L", "M",
    "N", "O", "P", "Q", "R", "S", "T", "U", "V", "W", "X", "Y", "Z">>
LowerLetters ==
  <<"a", "b", "c", "d", "e", "f", "g", "h", "i", "j", "k", "l", "m",
    "n", "o", "p", "q", "r", "s", "t", "u", "v", "w", "x", "y", "z">>
DigitChars == <<"0", "1", "2", "3", "4", "5", "6", "7", "8", "9">>

Range(f) == {f[i] : i \in DOMAIN f}
Min(a, b) == IF a < b THEN a ELSE b
Max(a, b) == IF a > b THEN a ELSE b
Rep(c, n) == [i \in 1..n |-> c]

\* \w of a regular expression without the u flag: [A-Za-z0-9_]
WordChars ==
  Range(UpperLetters) \cup Range(LowerLetters) \cup Range(DigitChars) \cup {"_"}
IsWord(c) == c \in WordChars
\* \s
SpaceChars == {" ", "\t", "\n"}
IsSpace(c) == c \in SpaceChars

LowerOf ==
  [c \in Range(UpperLetters) |->
     LowerLetters[CHOOSE k \in DOMAIN UpperLetters : UpperLetters[k] = c]]
toLowerCase(s) ==
  [i \in 1..Len(s) |-> IF s[i] \in DOMAIN LowerOf THEN LowerOf[s[i]] ELSE s[i]]

\* s without its longest prefix and its longest suffix of characters in Drop
StripEnds(s, Drop) ==
  IF \A i \in 1..Len(s) : s[i] \in Drop THEN <<>>
  ELSE SubSeq(s,
              CHOOSE i \in 1..Len(s) :
                s[i] \notin Drop /\ \A j \in 1..(i - 1) : s[j] \in Drop,
              CHOOSE i \in 1..Len(s) :
                s[i] \notin Drop /\ \A j \in (i + 1)..Len(s) : s[j] \in Drop)

trim(s) == StripEnds(s, SpaceChars)

\* .replace(/[^\w\s-]/g, '')
RemoveSpecial(s) == SelectSeq(s, LAMBDA c : IsWord(c) \/ IsSpace(c) \/ c = "-")

\* .replace(/[\s_-]+/g, '-')
IsSeparator(c) == IsSpace(c) \/ c = "_" \/ c = "-"
CollapseSeparators(s) ==
  LET first == SelectSeq([i \in 1..Len(s) |-> i],
                         LAMBDA i : \/ ~IsSeparator(s[i])
                                    \/ i = 1
                                    \/ ~IsSeparator(s[i - 1]))
  IN [k \in 1..Len(first) |->
        IF IsSeparator(s[first[k]]) THEN "-" ELSE s[first[k]]]

\* .replace(/^-+|-+$/g, '')
StripHyphens(s) == StripEnds(s, {"-"})

\* s.slice(0, n) for n >= 0
Slice(s, n) == SubSeq(s, 1, Min(n, Len(s)))

\* String(n) for an integer n >= 0
RECURSIVE String(_)
String(n) ==
  IF n < 10 THEN <<DigitChars[n + 1]>>
  ELSE Append(String(n \div 10), DigitChars[(n % 10) + 1])

SLUG_MAX_LENGTH == 120

\* The base normalization of generateSlug.
SlugBase(t) ==
  StripHyphens(CollapseSeparators(RemoveSpecial(trim(toLowerCase(t)))))

\* generateSlug with the suffix appended to the whole base: the final slice then
\* cuts the suffix of a long title.
generateSlugUntruncatedBase(t, suffixStr) ==
  LET base == SlugBase(t)
  IN IF suffixStr = <<>>
     THEN Slice(base, SLUG_MAX_LENGTH)
     ELSE Slice(base \o <<"-">> \o suffixStr, SLUG_MAX_LENGTH)

\* generateSlug(title, suffix): suffixStr is String(suffix), or <<>> when the
\* suffix is undefined, null or ''.
generateSlug(t, suffixStr) ==
  LET base == SlugBase(t)
  IN IF suffixStr = <<>>
     THEN Slice(base, SLUG_MAX_LENGTH)
     ELSE LET maxBaseLength == Max(SLUG_MAX_LENGTH - Len(suffixStr) - 1, 1)
              truncatedBase == Slice(base, maxBaseLength)
          IN Slice(truncatedBase \o <<"-">> \o suffixStr, SLUG_MAX_LENGTH)

MAX_ATTEMPTS == 10000

\* String(Date.now()): thirteen digits (from 2001 to 2286)
Timestamps ==
  {<<"1", "7", "6", "2", "1", "6", "7", "6", "0", "0", "1", "2", "3">>}

(***************************************************************************)
(* The Event collection and the pre-save hook.                             *)
(***************************************************************************)
\* The request slots: a save takes the first slot that has no save in progress.
Writers == {1, 2}

ReactConf == <<"R", "e", "a", "c", "t", " ", "C", "o", "n", "f">>
reactConf == <<"r", "e", "a", "c", "t", " ", "c", "o", "n", "f">>

\* Titles a request may carry: two spellings of one base slug, a title of
\* special characters only, a blank title, and a title one character too long
\* for "-2" to fit after its base.
EventTitles ==
  {ReactConf, reactConf, <<"!">>, <<" ">>, Rep("a", SLUG_MAX_LENGTH - 1)}

IdleWriter ==
  [st |-> "idle", id |-> 0, title |-> <<>>, slug |-> <<>>,
   queried |-> FALSE, raced |-> FALSE]

EventInit ==
  /\ events = <<>>
  /\ writers = [w \in Writers |-> IdleWriter]
  /\ saves = 0

\* new RegExp(`^${escapedBase}(?:-[0-9]+)?$`, 'i').test(s)
MatchesSlugPattern(s, baseSlug) ==
  LET ls == toLowerCase(s)
      lb == toLowerCase(baseSlug)
      n == Len(lb)
  IN \/ ls = lb
     \/ /\ Len(ls) >= n + 2
        /\ SubSeq(ls, 1, n) = lb
        /\ ls[n + 1] = "-"
        /\ \A i \in (n + 2)..Len(ls) : ls[i] \in Range(DigitChars)

\* The set read by a query that does not leave the saved document out.
existingSlugsWithSelf(baseSlug, id) ==
  {toLowerCase(events[j].slug) :
     j \in {k \in 1..Len(events) : MatchesSlugPattern(events[k].slug, baseSlug)}}

\* The set the hook builds from its find(): the lowercased slugs of the stored
\* Events that match the pattern, the saved document itself left out when it
\* is not new (id # 0).
existingSlugs(baseSlug, id) ==
  {toLowerCase(events[j].slug) :
     j \in {k \in 1..Len(events) : k # id /\ MatchesSlugPattern(events[k].slug, baseSlug)}}

\* The first counter in lo..hi whose candidate is not in existing; 0 when
\* there is none. The lower half is searched before the upper half, which keeps
\* the evaluation shallow over the loop's ten thousand counters.
RECURSIVE FirstFreeIn(_, _, _, _)
FirstFreeIn(t, existing, lo, hi) ==
  IF lo > hi THEN 0
  ELSE IF lo = hi
  THEN (IF toLowerCase(generateSlug(t, String(lo))) \notin existing THEN lo ELSE 0)
  ELSE LET mid == (lo + hi) \div 2
           low == FirstFreeIn(t, existing, lo, mid)
       IN IF low # 0 THEN low ELSE FirstFreeIn(t, existing, mid + 1, hi)

\* A loop that also tries counter MAX_ATTEMPTS (counter <= MAX_ATTEMPTS).
FirstFreeCounterInclusive(t, existing, c) ==
  FirstFreeIn(t, existing, c, MAX_ATTEMPTS)

\* The while loop: the first counter from c up, below MAX_ATTEMPTS, whose
\* candidate is not in existing; 0 when there is none.
FirstFreeCounter(t, existing, c) ==
  FirstFreeIn(t, existing, c, MAX_ATTEMPTS - 1)

\* The hook with its counter starting at 1 instead of 2.
finalSlugCounterFromOne(t, existing, now) ==
  LET baseSlug == generateSlug(t, <<>>)
  IN IF toLowerCase(baseSlug) \notin existing THEN baseSlug
     ELSE LET counter == FirstFreeCounter(t, existing, 1)
              afterLoop == IF counter = 0 THEN baseSlug
                           ELSE generateSlug(t, String(counter))
          IN IF afterLoop = baseSlug THEN generateSlug(t, now) ELSE afterLoop

\* finalSlug of the hook for title t, given the set read and Date.now().
finalSlug(t, existing, now) ==
  LET baseSlug == generateSlug(t, <<>>)
  IN IF toLowerCase(baseSlug) \notin existing THEN baseSlug
     ELSE LET counter == FirstFreeCounter(t, existing, 2)
              afterLoop == IF counter = 0 THEN baseSlug
                           ELSE generateSlug(t, String(counter))
          IN IF afterLoop = baseSlug THEN generateSlug(t, now) ELSE afterLoop

\* Validation fails: the title is empty once the schema's trim setter has run.
\* The hook does not run and nothing is written.
SaveInvalid(w, id, t) ==
  /\ trim(t) = <<>>
  /\ writers' = [writers EXCEPT ![w] = [IdleWriter EXCEPT !.st = "invalid"]]
  /\ UNCHANGED events

\* The hook for a new document, or for a stored one whose title was modified:
\* it reads the collection and sets the slug.
SaveResolvesSlug(w, id, t) ==
  /\ trim(t) # <<>>
  /\ IF id = 0 THEN TRUE ELSE trim(t) # events[id].title
  /\ \E now \in Timestamps :
       writers' = [writers EXCEPT ![w] =
         [st |-> "pending", id |-> id, title |-> trim(t),
          slug |-> finalSlug(trim(t), existingSlugs(generateSlug(trim(t), <<>>), id), now),
          queried |-> TRUE, raced |-> FALSE]]
  /\ UNCHANGED events

\* A hook that queries and sets the slug whether the title was modified or not.
SaveKeepsSlugRequeries(w, id, t) ==
  /\ trim(t) # <<>>
  /\ IF id = 0 THEN FALSE ELSE trim(t) = events[id].title
  /\ \E now \in Timestamps :
       writers' = [writers EXCEPT ![w] =
         [st |-> "pending", id |-> id, title |-> trim(t),
          slug |-> finalSlug(trim(t), existingSlugs(generateSlug(trim(t), <<>>), id), now),
          queried |-> TRUE, raced |-> FALSE]]
  /\ UNCHANGED events

\* The hook for a stored document whose title was not modified: no query, the
\* slug stays.
SaveKeepsSlug(w, id, t) ==
  /\ trim(t) # <<>>
  /\ IF id = 0 THEN FALSE ELSE trim(t) = events[id].title
  /\ writers' = [writers EXCEPT ![w] =
       [st |-> "pending", id |-> id, title |-> events[id].title,
        slug |-> events[id].slug, queried |-> FALSE, raced |-> FALSE]]
  /\ UNCHANGED events

\* save() up to the write: validation and the pre-save hook. id = 0 is a new
\* document (Event.create), otherwise the stored document id with title set to t.
BeginSave(w, id, t) ==
  /\ writers[w].st # "pending"
  /\ \A v \in Writers : v < w => writers[v].st = "pending"
  /\ saves < MaxSaves
  /\ saves' = saves + 1
  /\ \/ SaveInvalid(w, id, t)
     \/ SaveResolvesSlug(w, id, t)
     \/ SaveKeepsSlug(w, id, t)

\* A collection without the unique index on slug.
NoUniqueIndex(id, s) == TRUE

\* The unique index on slug: no other stored document has this slug.
UniqueIndexAccepts(id, s) ==
  \A j \in 1..Len(events) : j # id => events[j].slug # s

Stored(w) == [title |-> writers[w].title, slug |-> writers[w].slug]

\* Every other save that has read the collection and not yet written has now
\* been overtaken by a write.
Overtake(w) ==
  [v \in Writers |->
     IF v = w THEN [IdleWriter EXCEPT !.st = "saved"]
     ELSE IF writers[v].st = "pending" THEN [writers[v] EXCEPT !.raced = TRUE]
     ELSE writers[v]]

\* The write is accepted: the document is inserted, or its modified paths are
\* updated (neither title nor slug when the hook kept the slug).
WriteAccepted(w) ==
  /\ writers[w].queried => UniqueIndexAccepts(writers[w].id, writers[w].slug)
  /\ events' = IF ~writers[w].queried THEN events
               ELSE IF writers[w].id = 0 THEN Append(events, Stored(w))
               ELSE [events EXCEPT ![writers[w].id] = Stored(w)]
  /\ writers' = Overtake(w)

\* The write is rejected with a duplicate key error, which save() throws.
WriteRejected(w) ==
  /\ writers[w].queried
  /\ ~UniqueIndexAccepts(writers[w].id, writers[w].slug)
  /\ writers' = [writers EXCEPT ![w].st = "rejected"]
  /\ UNCHANGED events

\* save() from the write on.
CompleteSave(w) ==
  /\ writers[w].st = "pending"
  /\ UNCHANGED saves
  /\ \/ WriteAccepted(w)
     \/ WriteRejected(w)

(***************************************************************************)
(* The Booking collection and its pre-save hook.                           *)
(***************************************************************************)
\* The Booking requests; each saves one Booking.
Bookers == 1..MaxBookers

IdleBooker == [st |-> "idle", eventId |-> 0]

BookingInit ==
  /\ bookings = <<>>
  /\ bookers = [b \in Bookers |-> IdleBooker]

\* Event.findById(eventId): ids are positions in the collection, and no code
\* of the repository removes an Event.
findById(eventId) == eventId \in 1..Len(events)

\* Validation fails (eventId missing, or email not matching emailRegex): the
\* hook does not run.
BookingInvalid(b) ==
  bookers' = [bookers EXCEPT ![b] = [st |-> "invalid", eventId |-> 0]]

\* A hook that does not look the Event up.
BookingHookNoLookup(b, eventId) ==
  bookers' = [bookers EXCEPT ![b] = [st |-> "pending", eventId |-> eventId]]

\* The pre-save hook: the save goes on when the Event is found, and throws
\* the error with statusCode 404 when it is not.
BookingHook(b, eventId) ==
  bookers' = [bookers EXCEPT ![b] =
    [st |-> IF findById(eventId) THEN "pending" ELSE "notFound",
     eventId |-> eventId]]

\* Booking save() up to the write: validation and the pre-save hook.
BeginBooking(b, eventId, valid) ==
  /\ bookers[b].st = "idle"
  /\ IF valid THEN BookingHook(b, eventId) ELSE BookingInvalid(b)
  /\ UNCHANGED bookings

\* Booking save() from the write on: the document is inserted.
CompleteBooking(b) ==
  /\ bookers[b].st = "pending"
  /\ bookings' = Append(bookings, [eventId |-> bookers[b].eventId])
  /\ bookers' = [bookers EXCEPT ![b].st = "saved"]

EventNext ==
  \/ \E w \in Writers, t \in EventTitles, id \in 0..Len(events) :
       BeginSave(w, id, t) /\ UNCHANGED <<connVars, slugVars, restVars>>
  \/ \E w \in Writers : CompleteSave(w) /\ UNCHANGED <<connVars, slugVars, restVars>>

EventSpecInit ==
  /\ ConnIdle
  /\ EventInit
  /\ SlugIdle
  /\ BookingInit
  /\ DateIdle
  /\ HookIdle

EventSpec == EventSpecInit /\ [][EventNext]_vars

(***************************************************************************)
(* SlugSpec: generateSlug applied to a title and a suffix, and then to its *)
(* own output.                                                             *)
(***************************************************************************)
MaxTail == 3

TitleChars == {"B", "7", " ", "-", "_", "!"}

RECURSIVE SeqsUpTo(_, _)
SeqsUpTo(S, n) ==
  IF n = 0 THEN {<<>>}
  ELSE LET shorter == SeqsUpTo(S, n - 1)
       IN shorter \cup {Append(q, c) : q \in shorter, c \in S}

\* Titles: a run of a's (none, or long enough to reach the length limit)
\* followed by any short text.
RunLengths == {0, 130} \cup ((SLUG_MAX_LENGTH - 2)..SLUG_MAX_LENGTH)
Titles == {Rep("a", n) \o t : n \in RunLengths, t \in SeqsUpTo(TitleChars, MaxTail)}

\* The suffixes the save hook passes: none, a counter, or Date.now().
Suffixes ==
  {<<>>} \cup {String(k) : k \in {2, 10, MAX_ATTEMPTS - 1}}
         \cup Timestamps

SlugInit ==
  /\ title \in Titles
  /\ suffix = <<>>
  /\ slug = <<>>
  /\ step = 0

Generate(s) ==
  /\ step = 0
  /\ suffix' = s
  /\ slug' = generateSlug(title, s)
  /\ step' = 1
  /\ UNCHANGED title

\* generateSlug applied to the base slug it returned.
Regenerate ==
  /\ step = 1
  /\ suffix = <<>>
  /\ title' = slug
  /\ slug' = generateSlug(slug, <<>>)
  /\ step' = 2
  /\ UNCHANGED suffix

SlugNext ==
  \/ \E s \in Suffixes : Generate(s) /\ UNCHANGED <<connVars, eventVars, restVars>>
  \/ Regenerate /\ UNCHANGED <<connVars, eventVars, restVars>>

\* The cache has nothing to do with the Event collection and the slug engine:
\* each specification moves one of the three and holds the others still.
Init ==
  /\ ConnInit
  /\ EventInit
  /\ SlugIdle
  /\ BookingInit
  /\ DateIdle
  /\ HookIdle

Next ==
  \/ connectDB /\ UNCHANGED <<eventVars, slugVars, restVars>>
  \/ \E a \in 1..Len(attempts) : ConnectResolved(a) /\ UNCHANGED <<eventVars, slugVars, restVars>>
  \/ \E a \in 1..Len(attempts) : ConnectRejected(a) /\ UNCHANGED <<eventVars, slugVars, restVars>>
  \/ \E i \in 1..Len(calls) : Resume(i) /\ UNCHANGED <<eventVars, slugVars, restVars>>
  \/ disconnectDB /\ UNCHANGED <<eventVars, slugVars, restVars>>
  \/ \E r \in 1..Len(rel) : Disconnected(r) /\ UNCHANGED <<eventVars, slugVars, restVars>>
  \/ \E u \in UriValues : SetUri(u) /\ UNCHANGED <<eventVars, slugVars, restVars>>

Spec == Init /\ [][Next]_vars

SlugSpecInit ==
  /\ ConnIdle
  /\ EventInit
  /\ SlugInit
  /\ BookingInit
  /\ DateIdle
  /\ HookIdle

SlugSpec == SlugSpecInit /\ [][SlugNext]_vars

(***************************************************************************)
(* HookSpec: the hook's choice of finalSlug for a title and a set read by   *)
(* its query. The set is drawn as: the base slug or not, the candidates of  *)
(* the counters 2..upto, less those of the counters in holes.               *)
(***************************************************************************)
\* A title whose base slug is the candidate of its own counter 2.
EndsInTwo == Rep("a", SLUG_MAX_LENGTH - 2) \o <<"-", "2">>

HookTitles == {ReactConf, <<"a">>, EndsInTwo}

Candidate(t, k) == toLowerCase(generateSlug(t, String(k)))

\* existingSlugs as drawn.
Existing(in) ==
  (IF in.base THEN {toLowerCase(generateSlug(in.title, <<>>))} ELSE {})
    \cup {Candidate(in.title, k) : k \in (2..in.upto) \ in.holes}

\* Few counters taken, for every title.
FewTaken ==
  {[title |-> t, base |-> b, upto |-> u, holes |-> h] :
     t \in HookTitles, b \in BOOLEAN, u \in 1..MaxTaken, h \in SUBSET {2, 3}}

\* The base and all counters taken up to just below, at, or past the last
\* counter the loop tries, less the first or the last of them.
NearlyAllTaken ==
  {[title |-> <<"a">>, base |-> TRUE, upto |-> u, holes |-> h] :
     u \in (MAX_ATTEMPTS - 2)..MAX_ATTEMPTS, h \in SUBSET {2, MAX_ATTEMPTS - 1}}

HookInputs == FewTaken \cup NearlyAllTaken

HookInit ==
  /\ hookIn \in HookInputs
  /\ hookOut = <<>>

\* Lines 210-233 of the hook.
RunHook ==
  /\ hookOut = <<>>
  /\ \E now \in Timestamps :
       hookOut' = finalSlug(hookIn.title, Existing(hookIn), now)
  /\ UNCHANGED hookIn

HookNext ==
  RunHook /\ UNCHANGED <<connVars, eventVars, slugVars, bookingVars, dateVars>>

HookSpecInit ==
  /\ ConnIdle
  /\ EventInit
  /\ SlugIdle
  /\ BookingInit
  /\ DateIdle
  /\ HookInit

HookSpec == HookSpecInit /\ [][HookNext]_vars

(***************************************************************************)
(* DateSpec: normalizeDate applied to a text, in a process whose local time *)
(* is tz minutes ahead of UTC.                                             *)
(***************************************************************************)
MonthNames ==
  <<<<"J", "a", "n", "u", "a", "r", "y">>,
    <<"F", "e", "b", "r", "u", "a", "r", "y">>,
    <<"M", "a", "r", "c", "h">>,
    <<"A", "p", "r", "i", "l">>,
    <<"M", "a", "y">>,
    <<"J", "u", "n", "e">>,
    <<"J", "u", "l", "y">>,
    <<"A", "u", "g", "u", "s", "t">>,
    <<"S", "e", "p", "t", "e", "m", "b", "e", "r">>,
    <<"O", "c", "t", "o", "b", "e", "r">>,
    <<"N", "o", "v", "e", "m", "b", "e", "r">>,
    <<"D", "e", "c", "e", "m", "b", "e", "r">>>>

\* A text is drawn as Date parses it: form "long" is "<Month> <d>, <y>", which
\* Date reads as local time; form "iso" is "<yyyy>-<mm>-<dd>", which Date reads
\* as UTC; form "none" is a text Date cannot parse.
NotADate == <<"n", "o", "t", "-", "a", "-", "d", "a", "t", "e">>

\* n in decimal, with zeros in front up to w digits.
Pad(n, w) ==
  LET digits == String(n)
  IN Rep("0", w - Len(digits)) \o digits

\* yyyy-mm-dd
IsoDate(y, m, d) == Pad(y, 4) \o <<"-">> \o Pad(m, 2) \o <<"-">> \o Pad(d, 2)

\* The text itself.
DateText(in) ==
  CASE in.form = "long" ->
         MonthNames[in.m] \o <<" ">> \o String(in.d) \o <<",", " ">> \o String(in.y)
    [] in.form = "iso" -> IsoDate(in.y, in.m, in.d)
    [] OTHER -> NotADate

IsLeap(y) == (y % 4 = 0 /\ y % 100 # 0) \/ y % 400 = 0

DaysIn(y, m) ==
  IF m = 2 THEN (IF IsLeap(y) THEN 29 ELSE 28)
  ELSE IF m \in {4, 6, 9, 11} THEN 30
  ELSE 31

\* The day before y-m-d.
PrevDay(y, m, d) ==
  IF d > 1 THEN [y |-> y, m |-> m, d |-> d - 1]
  ELSE IF m > 1 THEN [y |-> y, m |-> m - 1, d |-> DaysIn(y, m - 1)]
  ELSE [y |-> y - 1, m |-> 12, d |-> 31]

\* new Date(dateString): the instant, as its UTC day and minute of that day,
\* or an invalid Date. Midnight local time is off minutes before midnight UTC.
NewDate(in, off) ==
  CASE in.form = "iso" ->
         [valid |-> TRUE, y |-> in.y, m |-> in.m, d |-> in.d, minute |-> 0]
    [] in.form = "long" /\ off <= 0 ->
         [valid |-> TRUE, y |-> in.y, m |-> in.m, d |-> in.d, minute |-> -off]
    [] in.form = "long" /\ off > 0 ->
         LET p == PrevDay(in.y, in.m, in.d)
         IN [valid |-> TRUE, y |-> p.y, m |-> p.m, d |-> p.d, minute |-> 1440 - off]
    [] OTHER -> [valid |-> FALSE, y |-> 0, m |-> 0, d |-> 0, minute |-> 0]

\* date.toISOString().split('T')[0]
toISOStringDay(date) == IsoDate(date.y, date.m, date.d)

normalizeDate(in, off) ==
  LET date == NewDate(in, off)
  IN IF date.valid THEN toISOStringDay(date) ELSE DateText(in)

\* Offsets from UTC in minutes: New York, UTC, Paris (winter), Kolkata.
Offsets == {-300, 0, 60, 330}

DateTexts ==
  {[form |-> f, y |-> y, m |-> m, d |-> d] :
     f \in {"long", "iso"}, y \in {2023, 2024}, m \in {1, 3, 12}, d \in {1, 3}}
  \cup {[form |-> "none", y |-> 0, m |-> 0, d |-> 0]}

DateInit ==
  /\ dateIn \in DateTexts
  /\ tz \in Offsets
  /\ dateOut = <<>>

Normalize ==
  /\ dateOut = <<>>
  /\ dateOut' = normalizeDate(dateIn, tz)
  /\ UNCHANGED <<dateIn, tz>>

DateNext ==
  Normalize /\ UNCHANGED <<connVars, eventVars, slugVars, bookingVars, hookVars>>

DateSpecInit ==
  /\ ConnIdle
  /\ EventInit
  /\ SlugIdle
  /\ BookingInit
  /\ DateInit
  /\ HookIdle

DateSpec == DateSpecInit /\ [][DateNext]_vars

(***************************************************************************)
(* BookingSpec: Booking saves against an Event collection that saves of    *)
(* "React Conf" have left with no, one or two Events.                      *)
(***************************************************************************)
\* The Events that two creates titled "React Conf" store.
ReactConfEvents ==
  <<[title |-> ReactConf, slug |-> finalSlug(ReactConf, {}, <<>>)],
    [title |-> ReactConf,
     slug |-> finalSlug(ReactConf, {generateSlug(ReactConf, <<>>)}, <<>>)]>>

StoredCollections ==
  {SubSeq(ReactConfEvents, 1, n) : n \in 0..Len(ReactConfEvents)}

\* The eventIds a request may carry: those of the Events and one more.
RequestIds == 1..(Len(ReactConfEvents) + 1)

BookingSpecInit ==
  /\ ConnIdle
  /\ events \in StoredCollections
  /\ writers = [w \in Writers |-> IdleWriter]
  /\ saves = 0
  /\ SlugIdle
  /\ BookingInit
  /\ DateIdle
  /\ HookIdle

BookingNext ==
  \/ \E b \in Bookers, eventId \in RequestIds, valid \in BOOLEAN :
       /\ BeginBooking(b, eventId, valid)
       /\ UNCHANGED <<connVars, eventVars, slugVars, dateVars, hookVars>>
  \/ \E b \in Bookers :
       /\ CompleteBooking(b)
       /\ UNCHANGED <<connVars, eventVars, slugVars, dateVars, hookVars>>

BookingSpec == BookingSpecInit /\ [][BookingNext]_vars

(***************************************************************************)
(* Claims about the save hook and the collection (checked under EventSpec).*)
(***************************************************************************)

\* The lowercased slugs of the stored Events other than document id.
OtherSlugs(id) ==
  {toLowerCase(events[j].slug) : j \in (1..Len(events)) \ {id}}

\* Save w has resolved its slug and no write has reached the collection since
\* it read it: the save is not concurrent with another.
ResolvedAlone(w) ==
  /\ writers[w].st = "pending"
  /\ writers[w].queried
  /\ ~writers[w].raced

\* C4: the slug a non-concurrent create or title-changing update resolves
\* differs, case-insensitively, from the slug of every other stored Event.
C4_SequentialSlugIsFree ==
  \A w \in Writers :
    ResolvedAlone(w) =>
      toLowerCase(writers[w].slug) \notin OtherSlugs(writers[w].id)

\* C5: no two stored Events have the same slug, and a write that carries a
\* slug another stored Event holds is rejected and leaves the collection as it
\* was, while any other write is stored.
C5_UniqueSlugsRejectedWritesNothing ==
  /\ [](\A i, j \in 1..Len(events) : i # j => events[i].slug # events[j].slug)
  /\ [][\A w \in Writers :
          (writers[w].st = "pending" /\ writers'[w].st # "pending") =>
            IF /\ writers[w].queried
               /\ \E j \in 1..Len(events) :
                    j # writers[w].id /\ events[j].slug = writers[w].slug
            THEN writers'[w].st = "rejected" /\ events' = events
            ELSE /\ writers'[w].st = "saved"
                 /\ writers[w].queried =>
                      \E j \in 1..Len(events') :
                        events'[j].slug = writers[w].slug]_vars

\* Two concurrent creates resolved the same slug; one is stored and the other
\* was rejected.
C5_Witness ==
  \E w \in Writers :
    /\ writers[w].st = "rejected"
    /\ writers[w].id = 0
    /\ writers[w].raced
    /\ \E j \in 1..Len(events) : events[j].slug = writers[w].slug

Suffixed(base, k) == base \o <<"-">> \o String(k)

reactConfSlug == <<"r", "e", "a", "c", "t", "-", "c", "o", "n", "f">>

C18_SlugDerivedOnlyOnTitleChange ==
  /\ [][\A w \in Writers :
          (writers[w].st # "pending" /\ writers'[w].st = "pending") =>
            LET id == writers'[w].id
                modified == IF id = 0 THEN TRUE
                            ELSE writers'[w].title # events[id].title
            IN /\ writers'[w].queried <=> modified
               /\ ~modified => writers'[w].slug = events[id].slug]_vars
  /\ [][\A w \in Writers :
          (writers[w].st = "pending" /\ ~writers[w].queried
             /\ writers'[w].st # "pending") =>
            (writers'[w].st = "saved" /\ events' = events)]_vars

\* A stored Event is being saved with its title unmodified: no query was
\* made and the slug is the stored one.
C18_Witness ==
  \E w \in Writers :
    /\ writers[w].st = "pending"
    /\ writers[w].id # 0
    /\ ~writers[w].queried
    /\ writers[w].title = events[writers[w].id].title
    /\ writers[w].slug = events[writers[w].id].slug

\* C19: a non-concurrent save of a stored Event with a modified title gets
\* the bare base slug when no other Event holds it (even if the Event itself
\* does), and a different slug when another Event holds it.
C19_OwnSlugExcluded ==
  \A w \in Writers :
    (ResolvedAlone(w) /\ writers[w].id # 0) =>
      LET base == generateSlug(writers[w].title, <<>>)
          held == \E j \in (1..Len(events)) \ {writers[w].id} :
                    toLowerCase(events[j].slug) = toLowerCase(base)
      IN IF held THEN writers[w].slug # base ELSE writers[w].slug = base

\* A stored Event whose slug is the base slug of its new title kept that slug.
C19_Witness ==
  \E w \in Writers :
    /\ ResolvedAlone(w)
    /\ writers[w].id # 0
    /\ writers[w].title # events[writers[w].id].title
    /\ events[writers[w].id].slug = generateSlug(writers[w].title, <<>>)
    /\ writers[w].slug = generateSlug(writers[w].title, <<>>)

\* C10: a create or title-changing update that passed validation has a
\* non-empty slug when the hook is done.
C10_SlugNonEmpty ==
  \A w \in Writers :
    (writers[w].st = "pending" /\ writers[w].queried) => writers[w].slug # <<>>

(***************************************************************************)
(* Claims about Booking saves (checked under BookingSpec).                 *)
(***************************************************************************)

\* C13: a Booking save whose eventId matches no stored Event ends with the
\* 404 error and never writes; a Booking is written only by a save whose hook
\* found the Event, so every stored Booking refers to a stored Event.
C13_UnknownEventRejected ==
  /\ [](\A i \in 1..Len(bookings) : bookings[i].eventId \in 1..Len(events))
  /\ [][\A b \in Bookers :
          (bookers[b].st = "idle" /\ bookers'[b].st \notin {"idle", "invalid"}) =>
            /\ bookers'[b].st =
                 (IF bookers'[b].eventId \in 1..Len(events)
                  THEN "pending" ELSE "notFound")
            /\ bookings' = bookings]_vars
  /\ [][\A b \in Bookers :
          bookers[b].st \in {"notFound", "invalid"} => bookers'[b] = bookers[b]]_vars
  /\ [][bookings' # bookings =>
          \E b \in Bookers :
            /\ bookers[b].st = "pending"
            /\ bookers'[b].st = "saved"
            /\ bookings' = Append(bookings, [eventId |-> bookers[b].eventId])]_vars

\* One Booking was rejected for an unknown Event and another one was stored.
C13_Witness ==
  \E a, b \in Bookers :
    /\ bookers[a].st = "notFound"
    /\ bookers[a].eventId \notin 1..Len(events)
    /\ bookers[b].st = "saved"
    /\ bookings = <<[eventId |-> bookers[b].eventId]>>

(***************************************************************************)
(* Claims about the hook's counter loop (checked under HookSpec).          *)
(***************************************************************************)

\* The counters the loop tries.
Counters == 2..(MAX_ATTEMPTS - 1)

TimestampSlugs == {generateSlug(hookIn.title, now) : now \in Timestamps}

\* C20: the hook always assigns a slug; it is the base when the base is not
\* in the set read, the timestamp-suffixed slug exactly when the base and the
\* candidates of all counters 2..MAX_ATTEMPTS-1 are in it, and otherwise the
\* candidate of the lowest free counter, which is neither the base nor the
\* timestamp-suffixed slug.
C20_TimestampOnlyWhenExhausted ==
  hookOut # <<>> =>
    LET base == generateSlug(hookIn.title, <<>>)
        existing == Existing(hookIn)
        Taken(k) == Candidate(hookIn.title, k) \in existing
    IN IF toLowerCase(base) \notin existing THEN hookOut = base
       ELSE IF \A k \in Counters : Taken(k) THEN hookOut \in TimestampSlugs
       ELSE /\ \E k \in Counters :
                 /\ ~Taken(k)
                 /\ \A j \in 2..(k - 1) : Taken(j)
                 /\ hookOut = generateSlug(hookIn.title, String(k))
            /\ hookOut # base
            /\ hookOut \notin TimestampSlugs

\* Every counter the loop tries was taken, and the timestamp slug was assigned.
C20_Witness ==
  /\ hookIn.base
  /\ hookIn.upto >= MAX_ATTEMPTS - 1
  /\ hookIn.holes = {}
  /\ hookOut \in TimestampSlugs

(***************************************************************************)
(* Claims about normalizeDate (checked under DateSpec).                    *)
(***************************************************************************)

\* C14: for a text that parses as a date normalizeDate returns that calendar
\* date as YYYY-MM-DD, and for a text that does not parse it returns the text.
C14_SameDateOrUnchanged ==
  dateOut # <<>> =>
    dateOut = (IF dateIn.form = "none" THEN DateText(dateIn)
               ELSE IsoDate(dateIn.y, dateIn.m, dateIn.d))

(***************************************************************************)
(* Claims about generateSlug (checked under SlugSpec).                     *)
(***************************************************************************)
SlugChars == Range(LowerLetters) \cup Range(DigitChars) \cup {"-"}

\* C7: for a non-empty title the base slug (no suffix) has only characters
\* of [a-z0-9-], no leading and no trailing hyphen, and at most 120 characters.
C7_BaseSlugShape ==
  (step = 1 /\ suffix = <<>> /\ title # <<>>) =>
    /\ Range(slug) \subseteq SlugChars
    /\ Len(slug) <= SLUG_MAX_LENGTH
    /\ slug # <<>> => (slug[1] # "-" /\ slug[Len(slug)] # "-")

\* C8: the slug has at most 120 characters and, with a suffix, it is a prefix
\* of the title's normalized base followed by "-" and the whole suffix.
C8_LengthAndWholeSuffix ==
  step = 1 =>
    /\ Len(slug) <= SLUG_MAX_LENGTH
    /\ suffix # <<>> =>
         /\ Len(slug) >= Len(suffix) + 1
         /\ slug = Slice(SlugBase(title), Len(slug) - Len(suffix) - 1)
                      \o <<"-">> \o suffix

\* A title whose normalized base has 130 characters got a suffixed slug.
C8_Witness ==
  /\ step = 1
  /\ suffix # <<>>
  /\ Len(SlugBase(title)) = 130
  /\ Len(slug) = SLUG_MAX_LENGTH

\* C9: generateSlug applied to a base slug it returned returns that slug.
C9_Idempotent ==
  step = 2 => slug = title

(***************************************************************************)
(* Claims about the connection cache.                                      *)
(***************************************************************************)

\* Calls i and j belong to one burst of connectDB calls that began on an empty
\* cache (no connection, no promise) with a valid MONGODB_URI.
SameFreshBurst(i, j) ==
  /\ i < j
  /\ calls[i].burst = calls[j].burst
  /\ calls[i].sawEmpty
  /\ calls[i].uriAt = "valid"

\* C1: connectDB calls issued together on an empty cache with a valid URI start
\* exactly one mongoose.connect attempt (the first call's), every later call of
\* the burst is given that attempt's promise, and callers that have resumed
\* got the same outcome of it (the same handle or the same error).
C1_OneAttemptSharedOutcome ==
  \A i, j \in 1..Len(calls) :
    SameFreshBurst(i, j) =>
      /\ calls[i].ret = "promise" /\ calls[i].started
      /\ calls[j].ret = "promise" /\ ~calls[j].started
      /\ calls[j].v = calls[i].v
      /\ (calls[i].got # "pending" /\ calls[j].got # "pending")
            => calls[i].got = calls[j].got

\* Two calls of a fresh burst have both resumed with the attempt's handle.
C1_Witness ==
  \E i, j \in 1..Len(calls) :
    SameFreshBurst(i, j) /\ calls[i].got = "conn" /\ calls[j].got = "conn"

\* C2: whenever a connection attempt fails, the cache is left with no
\* connection and no promise (so that the next connectDB starts a new attempt).
C2_FailureLeavesCacheEmpty ==
  [][\A a \in 1..Len(attempts) :
       ConnectRejected(a) => (conn' = 0 /\ promise' = 0)]_vars

\* C3: at most one mongoose.connect attempt is in flight.
C3_AtMostOneInFlight ==
  Cardinality(InFlight) <= 1

\* A connectDB call is made in this step; LastCall is what it returned.
CallMade == Len(calls') = Len(calls) + 1
LastCall == calls'[Len(calls')]

\* C11: a connectDB call made while a connection is cached returns that
\* handle and starts no attempt, whatever MONGODB_URI is.
C11_CachedConnReturned ==
  [][(CallMade /\ conn # 0) =>
       (LastCall.ret = "conn" /\ LastCall.v = conn /\ attempts' = attempts)]_vars

\* C12: when a disconnectDB call returns (at once when it found no connection,
\* or after its await), the cache holds no connection and no promise.
C12_ReleaseLeavesCacheEmpty ==
  [][\A r \in 1..Len(rel') :
       (\/ r > Len(rel) /\ rel'[r].st = "noop"
        \/ r <= Len(rel) /\ rel[r].st = "closing" /\ rel'[r].st = "done")
         => (conn' = 0 /\ promise' = 0)]_vars

\* C15: a connectDB call made on an empty cache fails at once when MONGODB_URI
\* is absent or malformed, starting no attempt and leaving the cache empty, and
\* starts an attempt when MONGODB_URI is valid.
C15_ConfigErrorLeavesCacheEmpty ==
  [][(CallMade /\ conn = 0 /\ promise = 0) =>
       IF uri = "valid"
       THEN /\ LastCall.started
            /\ Len(attempts') = Len(attempts) + 1
            /\ promise' = Len(attempts')
       ELSE /\ LastCall.ret = (IF uri = "absent" THEN "missing" ELSE "format")
            /\ attempts' = attempts
            /\ conn' = 0
            /\ promise' = 0]_vars

\* A call failed on a malformed MONGODB_URI and a later call started an attempt.
C15_Witness ==
  \E i, j \in 1..Len(calls) :
    /\ i < j
    /\ calls[i].ret = "format"
    /\ calls[j].started

\* C16 as stated: when an attempt succeeds, cached.conn is its handle and
\* cached.promise is cleared.
C16_SuccessClearsPromise ==
  [][\A a \in 1..Len(attempts) :
       (attempts[a] = "inflight" /\ attempts'[a] = "ok") =>
         (conn' = a /\ promise' = 0)]_vars

\* C16 as amended: when an attempt succeeds, cached.conn is its handle and
\* cached.promise is left as it was.
C16_SuccessKeepsPromise ==
  [][\A a \in 1..Len(attempts) :
       (attempts[a] = "inflight" /\ attempts'[a] = "ok") =>
         (conn' = a /\ promise' = promise)]_vars

\* An attempt has succeeded: its handle is cached and its promise still is.
C16_Witness ==
  /\ conn # 0
  /\ promise = conn
  /\ attempts[conn] = "ok"

\* C17: connectDB never returns a handle that a disconnectDB call has begun
\* to close or has closed.
C17_NoClosingHandleReturned ==
  [][(CallMade /\ LastCall.ret = "conn") =>
       \A r \in 1..Len(rel) :
         rel[r].st \in {"closing", "done"} => LastCall.v # rel[r].h]_vars

====
